---- MODULE Spec2Model ----
(***************************************************************************)
(* A model of the pulp_rpm ISO importer (ISOImporter: sync_repo,           *)
(* cancel_sync_repo, import_units, upload_unit) and of the consumer        *)
(* package commands of the admin client (install, update, uninstall:       *)
(* request building and result rendering).                                 *)
(*                                                                         *)
(* Python values are modelled as follows: None is the record PyNone, a     *)
(* string s that may be compared with None is the record Str(s), a dict is *)
(* a record (a function on its keys), a list is a sequence, and a list    *)
(* that may be None instead is the record List(l).                         *)
(***************************************************************************)
EXTENDS Integers, Sequences, FiniteSets, TLC

VARIABLES
    \* ---- ISOImporter.sync_repo / cancel_sync_repo ----
    iso_sync,          \* the attribute self.iso_sync of the importer
    sync_pc,           \* position of the thread running sync_repo
    sync_config,       \* the config argument of the current / last sync_repo call
    sync_engine,       \* the ISOSyncRun built by the current / last call, or PyNone
    sync_result,       \* how the last sync_repo call ended
    sync_conduit_repo, \* sync_conduit.repo
    engine_status,     \* ISOSyncRun id -> "unborn" | "running" | "completed" | "failed"
    engine_cancelled,  \* ISOSyncRun id -> its cancel flag
    engine_saved,      \* ISOSyncRun id -> number of units it has persisted
    cancel_pc,         \* position of the thread running cancel_sync_repo
    cancel_ref,        \* the value of self.iso_sync that thread has loaded
    cancel_result,     \* how the last cancel_sync_repo call ended
    \* ---- ISOImporter.upload_unit ----
    iso_objects,       \* models.ISO.objects: the unit keys that are saved
    content_store,     \* unit keys whose file has been imported into storage
    repo_units,        \* unit keys associated with transfer_repo.repo_obj
    upload_pc,         \* position of the thread running upload_unit
    upload_call,       \* the arguments of the current / last call, or PyNone
    upload_result,     \* what the last upload_unit call returned (or that it raised)
    upload_log,        \* the persistence calls the current / last call has made
    upload_pre,        \* the three stores as they were when the call began
    \* ---- ISOImporter.import_units ----
    import_source,     \* the units of the source repository, in query order
    import_arg,        \* the units argument of the last call
    associate_calls,   \* the import_conduit.associate_unit calls of the last call
    import_return,     \* what the last call returned
    \* ---- admin client: package install / update / uninstall ----
    cli_command,       \* the command of the last operation
    cli_kwargs,        \* the parsed command line of the last request built
    cli_request,       \* the units and options of the last request built
    cli_task,          \* the task result handed to the last succeeded callback
    cli_output         \* the prompt calls the last succeeded callback made

sync_vars == <<iso_sync, sync_pc, sync_config, sync_engine, sync_result,
               sync_conduit_repo, engine_status, engine_cancelled, engine_saved,
               cancel_pc, cancel_ref, cancel_result>>
upload_vars == <<iso_objects, content_store, repo_units, upload_pc, upload_call,
                 upload_result, upload_log, upload_pre>>
import_vars == <<import_source, import_arg, associate_calls, import_return>>
cli_vars == <<cli_command, cli_kwargs, cli_request, cli_task, cli_output>>
vars == <<sync_vars, upload_vars, import_vars, cli_vars>>

\* ------------------------------------------------------------------ bounds
\* ISOSyncRun objects built in one behaviour
MaxSyncRuns == 2
\* units a feed offers to one synchronization
MaxFeedUnits == 1
\* distinct unit keys of uploaded ISOs
MaxKeys == 2
\* length of a unit list (source repository, units argument)
MaxUnits == 2
\* package names given on a command line
MaxNames == 2
\* packages in the resolved and deps lists of a task result
MaxPkgs == 2

\* ------------------------------------------------------------ Python values
PyNone == [py |-> "None"]
\* an attribute that was never assigned: reading it raises AttributeError
Unset == [py |-> "unset"]
Str(s) == [str |-> s]
\* a list where None may stand in its place
List(l) == [list |-> l]
\* bounded sequences over S
SeqUpTo(S, n) == UNION {[1..k -> S] : k \in 0..n}

\* =====================================================================
\* ISOImporter.sync_repo and ISOImporter.cancel_sync_repo
\* =====================================================================
KEY_FEED == "feed"
EngineIds == 1..MaxSyncRuns
EngineRef(i) == [engine |-> i]
IsEngine(v) == DOMAIN v = {"engine"}

\* PluginCallConfiguration.get: the value of the key, None when it is absent
config_get(config, key) == IF key \in DOMAIN config THEN config[key] ELSE PyNone

NoConfig == [k \in {} |-> PyNone]
\* the configurations a sync_repo call is given: no feed key, a feed of None,
\* an empty feed, a feed address
SyncConfigs == {NoConfig,
                [feed |-> PyNone],
                [feed |-> Str("")],
                [feed |-> Str("http://feed/")]}

UnbornEngines == {i \in EngineIds : engine_status[i] = "unborn"}

only_sync == UNCHANGED <<upload_vars, import_vars, cli_vars>>
only_upload == UNCHANGED <<sync_vars, import_vars, cli_vars>>
only_import == UNCHANGED <<sync_vars, upload_vars, cli_vars>>
only_cli == UNCHANGED <<sync_vars, upload_vars, import_vars>>

cancel_unchanged == UNCHANGED <<cancel_pc, cancel_ref, cancel_result>>
engines_unchanged == UNCHANGED <<engine_status, engine_cancelled, engine_saved>>

\* sync_repo, lines 103-105: the feed check fails and ValueError is raised
SyncRepoNoFeed(config) ==
    /\ sync_pc = "idle"
    /\ config_get(config, KEY_FEED) = PyNone
    /\ sync_conduit_repo' = "repo_obj"
    /\ sync_config' = config
    /\ sync_engine' = PyNone
    /\ sync_result' = "ValueError"
    /\ UNCHANGED <<iso_sync, sync_pc>>
    /\ engines_unchanged /\ cancel_unchanged
    /\ only_sync

\* sync_repo, lines 103-106: the feed check passes (the feed is anything but
\* None, the empty string included) and an ISOSyncRun is built and stored
SyncRepoStart(config) ==
    /\ sync_pc = "idle"
    /\ config_get(config, KEY_FEED) # PyNone
    /\ UnbornEngines # {}
    /\ LET i == CHOOSE j \in UnbornEngines : \A k \in UnbornEngines : j <= k
       IN /\ iso_sync' = EngineRef(i)
          /\ sync_engine' = EngineRef(i)
          /\ engine_status' = [engine_status EXCEPT ![i] = "running"]
    /\ sync_conduit_repo' = "repo_obj"
    /\ sync_config' = config
    /\ sync_result' = "running"
    /\ sync_pc' = "perform_sync"
    /\ UNCHANGED <<engine_cancelled, engine_saved>>
    /\ cancel_unchanged
    /\ only_sync

\* ISOSyncRun.perform_sync at work: one unit of the feed is saved and associated,
\* unless the cancel flag is seen at the checkpoint before it
EnginePersistUnit ==
    /\ sync_pc = "perform_sync"
    /\ LET i == sync_engine.engine
       IN /\ ~engine_cancelled[i]
          /\ engine_saved[i] < MaxFeedUnits
          /\ engine_saved' = [engine_saved EXCEPT ![i] = @ + 1]
    /\ UNCHANGED <<iso_sync, sync_pc, sync_config, sync_engine, sync_result,
                   sync_conduit_repo, engine_status, engine_cancelled>>
    /\ cancel_unchanged
    /\ only_sync

\* sync_repo, line 107: perform_sync returns its report
PerformSyncReturns ==
    /\ sync_pc = "perform_sync"
    /\ engine_status' = [engine_status EXCEPT ![sync_engine.engine] = "completed"]
    /\ sync_pc' = "clear"
    /\ UNCHANGED <<iso_sync, sync_config, sync_engine, sync_result,
                   sync_conduit_repo, engine_cancelled, engine_saved>>
    /\ cancel_unchanged
    /\ only_sync

\* sync_repo, line 107: perform_sync raises; nothing catches it, so lines 108-109
\* are skipped and the exception leaves sync_repo
PerformSyncRaises ==
    /\ sync_pc = "perform_sync"
    /\ engine_status' = [engine_status EXCEPT ![sync_engine.engine] = "failed"]
    /\ sync_result' = "raised"
    /\ sync_pc' = "idle"
    /\ UNCHANGED <<iso_sync, sync_config, sync_engine, sync_conduit_repo,
                   engine_cancelled, engine_saved>>
    /\ cancel_unchanged
    /\ only_sync

\* sync_repo, lines 108-109: the reference is dropped and the report returned
SyncRepoReturn ==
    /\ sync_pc = "clear"
    /\ iso_sync' = PyNone
    /\ sync_result' = "report"
    /\ sync_pc' = "idle"
    /\ UNCHANGED <<sync_config, sync_engine, sync_conduit_repo>>
    /\ engines_unchanged /\ cancel_unchanged
    /\ only_sync

sync_unchanged == UNCHANGED <<iso_sync, sync_pc, sync_config, sync_engine,
                              sync_result, sync_conduit_repo>>

\* cancel_sync_repo, line 37, first half: self.iso_sync is read. The class has no
\* __init__, so before the first sync_repo the attribute does not exist and the
\* read raises AttributeError.
CancelLoad ==
    /\ cancel_pc = "idle"
    /\ IF iso_sync = Unset
       THEN /\ cancel_result' = "AttributeError"
            /\ UNCHANGED <<cancel_pc, cancel_ref>>
       ELSE /\ cancel_ref' = iso_sync
            /\ cancel_result' = "running"
            /\ cancel_pc' = "call"
    /\ sync_unchanged /\ engines_unchanged
    /\ only_sync

\* cancel_sync_repo, line 37, second half: .cancel_sync() on the value read. None
\* has no such attribute (AttributeError); an ISOSyncRun sets its cancel flag.
CancelCall ==
    /\ cancel_pc = "call"
    /\ IF IsEngine(cancel_ref)
       THEN /\ engine_cancelled' = [engine_cancelled EXCEPT ![cancel_ref.engine] = TRUE]
            /\ cancel_result' = "returned"
       ELSE /\ cancel_result' = "AttributeError"
            /\ UNCHANGED engine_cancelled
    /\ cancel_pc' = "idle"
    /\ UNCHANGED <<cancel_ref, engine_status, engine_saved>>
    /\ sync_unchanged
    /\ only_sync

SyncInit ==
    /\ iso_sync = Unset
    /\ sync_pc = "idle"
    /\ sync_config = NoConfig
    /\ sync_engine = PyNone
    /\ sync_result = "none"
    /\ sync_conduit_repo = "none"
    /\ engine_status = [i \in EngineIds |-> "unborn"]
    /\ engine_cancelled = [i \in EngineIds |-> FALSE]
    /\ engine_saved = [i \in EngineIds |-> 0]
    /\ cancel_pc = "idle"
    /\ cancel_ref = PyNone
    /\ cancel_result = "none"

NextSync ==
    \/ \E config \in SyncConfigs : SyncRepoNoFeed(config)
    \/ \E config \in SyncConfigs : SyncRepoStart(config)
    \/ EnginePersistUnit
    \/ PerformSyncReturns
    \/ PerformSyncRaises
    \/ SyncRepoReturn
    \/ CancelLoad
    \/ CancelCall

\* =====================================================================
\* ISOImporter.upload_unit
\* =====================================================================
UnitKeys == 1..MaxKeys
\* an uploaded file, by what validate_iso finds in it
Files == [size_ok : BOOLEAN, checksum_ok : BOOLEAN]
Bool(b) == [bool |-> b]
\* config.get_boolean(KEY_VALIDATE): None when the key is absent
ValidateSettings == {PyNone, Bool(TRUE), Bool(FALSE)}
\* the arguments of a call; validate_default is constants.CONFIG_VALIDATE_DEFAULT,
\* whose value is set outside these sources, so a call may see either value
UploadCalls == [unit_key : UnitKeys, file : Files,
                validate : ValidateSettings, validate_default : BOOLEAN]

\* lines 140-141: the validation depth
full_validation(call) ==
    IF call.validate # PyNone THEN call.validate.bool ELSE call.validate_default

\* models.ISO.validate_iso: the size is always compared, the checksum under full
\* validation only; a mismatch raises ValueError
validate_iso_raises(file, full) == ~file.size_ok \/ (full /\ ~file.checksum_ok)
validate_iso_message(file) ==
    IF ~file.size_ok THEN Str("size mismatch") ELSE Str("checksum mismatch")

\* line 136: models.ISO.objects.filter(**unit_key).count() > 0
iso_exists(unit_key) == unit_key \in iso_objects

Stores == [iso_objects |-> iso_objects, content_store |-> content_store,
           repo_units |-> repo_units]
UploadReport(flag, summary) ==
    [success_flag |-> flag, summary |-> summary, details |-> PyNone]
Raised == [raised |-> TRUE]

\* lines 149-152: the persistence calls of an accepted upload, in program order
upload_steps_associate_first == <<"associate", "save", "import_content">>
upload_steps == <<"save", "import_content", "associate">>

upload_next_step ==
    IF upload_pc = "persist" /\ Len(upload_log) < Len(upload_steps)
    THEN upload_steps[Len(upload_log) + 1] ELSE "none"

UploadBegin(call) ==
    /\ upload_pc = "idle"
    /\ upload_call' = call
    /\ upload_log' = <<>>
    /\ upload_pre' = Stores
    /\ only_upload

\* lines 136-137: a unit with this key exists
UploadRejectDuplicate(call) ==
    /\ UploadBegin(call)
    /\ iso_exists(call.unit_key)
    /\ upload_result' = UploadReport(FALSE, Str("ISO already exists"))
    /\ UNCHANGED <<iso_objects, content_store, repo_units, upload_pc>>

\* lines 139-147: validate_iso raises ValueError
UploadRejectInvalidAfterSave(call) ==
    /\ UploadBegin(call)
    /\ ~iso_exists(call.unit_key)
    /\ validate_iso_raises(call.file, full_validation(call))
    /\ iso_objects' = iso_objects \cup {call.unit_key}
    /\ upload_result' = UploadReport(FALSE, validate_iso_message(call.file))
    /\ UNCHANGED <<content_store, repo_units, upload_pc>>

UploadRejectInvalid(call) ==
    /\ UploadBegin(call)
    /\ ~iso_exists(call.unit_key)
    /\ validate_iso_raises(call.file, full_validation(call))
    /\ upload_result' = UploadReport(FALSE, validate_iso_message(call.file))
    /\ UNCHANGED <<iso_objects, content_store, repo_units, upload_pc>>

\* lines 136-147: both checks pass
UploadAccept(call) ==
    /\ UploadBegin(call)
    /\ ~iso_exists(call.unit_key)
    /\ ~validate_iso_raises(call.file, full_validation(call))
    /\ upload_result' = PyNone
    /\ upload_pc' = "persist"
    /\ UNCHANGED <<iso_objects, content_store, repo_units>>

\* line 149: iso.save()
UploadSave ==
    /\ upload_next_step = "save"
    /\ iso_objects' = iso_objects \cup {upload_call.unit_key}
    /\ upload_log' = Append(upload_log, "save")
    /\ UNCHANGED <<content_store, repo_units, upload_pc, upload_call,
                   upload_result, upload_pre>>
    /\ only_upload

\* line 150: iso.import_content(file_path)
UploadImportContent ==
    /\ upload_next_step = "import_content"
    /\ content_store' = content_store \cup {upload_call.unit_key}
    /\ upload_log' = Append(upload_log, "import_content")
    /\ UNCHANGED <<iso_objects, repo_units, upload_pc, upload_call,
                   upload_result, upload_pre>>
    /\ only_upload

\* line 152: repo_controller.associate_single_unit(transfer_repo.repo_obj, iso)
UploadAssociate ==
    /\ upload_next_step = "associate"
    /\ repo_units' = repo_units \cup {upload_call.unit_key}
    /\ upload_log' = Append(upload_log, "associate")
    /\ UNCHANGED <<iso_objects, content_store, upload_pc, upload_call,
                   upload_result, upload_pre>>
    /\ only_upload

\* lines 149-152: the call about to be made raises; no handler is in place, so
\* the exception leaves upload_unit
UploadStepRaises ==
    /\ upload_next_step # "none"
    /\ upload_result' = Raised
    /\ upload_pc' = "idle"
    /\ UNCHANGED <<iso_objects, content_store, repo_units, upload_call,
                   upload_log, upload_pre>>
    /\ only_upload

\* line 154
UploadReturn ==
    /\ upload_pc = "persist"
    /\ Len(upload_log) = Len(upload_steps)
    /\ upload_result' = UploadReport(TRUE, PyNone)
    /\ upload_pc' = "idle"
    /\ UNCHANGED <<iso_objects, content_store, repo_units, upload_call,
                   upload_log, upload_pre>>
    /\ only_upload

UploadInit ==
    /\ iso_objects = {}
    /\ content_store = {}
    /\ repo_units = {}
    /\ upload_pc = "idle"
    /\ upload_call = PyNone
    /\ upload_result = PyNone
    /\ upload_log = <<>>
    /\ upload_pre = [iso_objects |-> {}, content_store |-> {}, repo_units |-> {}]

NextUpload ==
    \/ \E call \in UploadCalls : UploadRejectDuplicate(call)
    \/ \E call \in UploadCalls : UploadRejectInvalid(call)
    \/ \E call \in UploadCalls : UploadAccept(call)
    \/ UploadSave
    \/ UploadImportContent
    \/ UploadAssociate
    \/ UploadStepRaises
    \/ UploadReturn

\* =====================================================================
\* ISOImporter.import_units
\* =====================================================================
TYPE_ID_ISO == "iso"
TYPE_ID_RPM == "rpm"
Units == [type_id : {TYPE_ID_ISO, TYPE_ID_RPM}, key : UnitKeys]
UnitLists == SeqUpTo(Units, MaxUnits)

\* import_conduit.get_source_units(criteria): the units of the source repository
\* whose type is among the criteria's type_ids, in the order of the query
RECURSIVE get_source_units(_, _)
get_source_units(source, type_ids) ==
    IF source = <<>> THEN <<>>
    ELSE LET rest == get_source_units(Tail(source), type_ids)
         IN IF Head(source).type_id \in type_ids
            THEN <<Head(source)>> \o rest ELSE rest

\* lines 85-87: the units to import
import_selection_any_type(source, units) ==
    IF units = PyNone THEN source ELSE units.list
import_selection(source, units) ==
    IF units = PyNone THEN get_source_units(source, {TYPE_ID_ISO}) ELSE units.list

\* lines 89-90: the associate_unit calls the loop makes, in order
RECURSIVE associate_each(_, _)
associate_each(units, calls) ==
    IF units = <<>> THEN calls
    ELSE associate_each(Tail(units), Append(calls, Head(units)))

\* import_units, lines 85-92. The method keeps nothing from one call to the
\* next, so a behaviour is one call.
ImportUnits ==
    /\ import_return = PyNone
    /\ \E source \in UnitLists : \E units \in {List(l) : l \in UnitLists} \cup {PyNone} :
          /\ import_source' = source
          /\ import_arg' = units
          /\ LET selected == import_selection(source, units)
             IN /\ associate_calls' = associate_each(selected, <<>>)
                /\ import_return' = List(selected)
    /\ only_import

ImportInit ==
    /\ import_source = <<>>
    /\ import_arg = PyNone
    /\ associate_calls = <<>>
    /\ import_return = PyNone

NextImport == ImportUnits

\* =====================================================================
\* admin client: package install, update, uninstall
\* =====================================================================
Commands == {"install", "update", "uninstall"}
Names == {"foo", "bar"}
\* --name may repeat: the parser hands over a list of at least one name
NameLists == {List(l) : l \in SeqUpTo(Names, MaxNames) \ {<<>>}}
\* the parsed command line of each command; --name is required for install and
\* uninstall and is None for an update given none; uninstall has no --import-keys
KwargsOf(cmd) ==
    CASE cmd = "install" ->
           [name : NameLists, no_commit : BOOLEAN, reboot : BOOLEAN,
            import_keys : BOOLEAN]
      [] cmd = "update" ->
           [name : NameLists \cup {PyNone}, no_commit : BOOLEAN, reboot : BOOLEAN,
            import_keys : BOOLEAN]
      [] cmd = "uninstall" ->
           [name : NameLists, no_commit : BOOLEAN, reboot : BOOLEAN]

\* _unit_dict, lines 137-139, 225-227, 298-300
unit_dict(unit_name) == [type_id |-> TYPE_ID_RPM, unit_key |-> [name |-> unit_name]]
\* map(_unit_dict, names)
map_unit_dict(names) == [i \in 1..Len(names) |-> unit_dict(names[i])]

\* lines 126-133
get_install_options(kwargs) ==
    [apply |-> ~kwargs.no_commit, reboot |-> kwargs.reboot,
     importkeys |-> kwargs.import_keys]
\* lines 135-141
install_get_content_units(kwargs) == map_unit_dict(kwargs.name.list)

\* lines 212-222
get_update_options_never_all(kwargs) ==
    [apply |-> ~kwargs.no_commit, reboot |-> kwargs.reboot,
     importkeys |-> kwargs.import_keys]
get_update_options(kwargs) ==
    LET options == [apply |-> ~kwargs.no_commit, reboot |-> kwargs.reboot,
                    importkeys |-> kwargs.import_keys]
    IN IF kwargs.name = PyNone THEN options @@ [all |-> TRUE] ELSE options
\* lines 224-232
update_get_content_units(kwargs) ==
    IF kwargs.name # PyNone
    THEN map_unit_dict(kwargs.name.list)
    ELSE <<[type_id |-> TYPE_ID_RPM, unit_key |-> PyNone]>>

\* lines 289-294
get_uninstall_options_commit_flag(kwargs) ==
    [apply |-> kwargs.no_commit, reboot |-> kwargs.reboot]
get_uninstall_options(kwargs) ==
    [apply |-> ~kwargs.no_commit, reboot |-> kwargs.reboot]
\* lines 296-302
uninstall_get_content_units(kwargs) == map_unit_dict(kwargs.name.list)

get_options(cmd, kwargs) ==
    CASE cmd = "install" -> get_install_options(kwargs)
      [] cmd = "update" -> get_update_options(kwargs)
      [] cmd = "uninstall" -> get_uninstall_options(kwargs)
get_content_units(cmd, kwargs) ==
    CASE cmd = "install" -> install_get_content_units(kwargs)
      [] cmd = "update" -> update_get_content_units(kwargs)
      [] cmd = "uninstall" -> uninstall_get_content_units(kwargs)

\* the command builds its request from the parsed command line
BuildRequest ==
    /\ cli_request = PyNone
    /\ \E cmd \in Commands : \E kwargs \in KwargsOf(cmd) :
          /\ cli_command' = cmd
          /\ cli_kwargs' = kwargs
          /\ cli_request' = [units |-> get_content_units(cmd, kwargs),
                             options |-> get_options(cmd, kwargs)]
    /\ UNCHANGED <<cli_task, cli_output>>
    /\ only_cli

\* ---- the task result and the prompt ----
Pkg(n) == [name |-> n, version |-> "1.0", arch |-> "noarch", repoid |-> "repo"]
PkgLists == SeqUpTo({Pkg(n) : n \in Names}, MaxPkgs)
\* details.errors: package name -> message
ErrorMaps == UNION {[S -> {"not found"}] : S \in SUBSET Names}
\* the details of a report whose operation succeeded, with and without 'errors'
SucceededDetails ==
    [resolved : PkgLists, deps : PkgLists] \cup
    [resolved : PkgLists, deps : PkgLists, errors : ErrorMaps]
FailedDetails == [message : {"no such package"}]
\* task.result
Report(ok, details) ==
    [succeeded |-> ok, details |-> [rpm |-> [details |-> details]]]
TaskResults == {Report(TRUE, d) : d \in SucceededDetails} \cup
               {Report(FALSE, d) : d \in FailedDetails}

\* the calls on context.prompt
render_success_message(msg) == [call |-> "render_success_message", msg |-> msg]
render_failure_message(msg) == [call |-> "render_failure_message", msg |-> msg]
render_title(title) == [call |-> "render_title", msg |-> title]
render_document_list(docs, order, filters) ==
    [call |-> "render_document_list", docs |-> docs, order |-> order,
     filters |-> filters]
\* prompt.write('%(pkg)s : %(msg)s\n' % ...)
write_error(pkg, msg) == [call |-> "write", line |-> <<pkg, " : ", msg, "\n">>]

\* lines 160, 247, 317
fields == <<"name", "version", "arch", "repoid">>

\* truth of a list
ListTruthy(l) == l # <<>>
\* truth of a dict, or of None in its place
DictTruthy(d) == d # PyNone /\ DOMAIN d # {}
\* dict.get(key, None)
dict_get(d, key) == IF key \in DOMAIN d THEN d[key] ELSE PyNone
\* the orders in which errors.items() may hand out the pairs of a dict
ItemOrders(d) ==
    {o \in [1..Cardinality(DOMAIN d) -> DOMAIN d] :
        \A i, j \in DOMAIN o : i # j => o[i] # o[j]}
OrdersOf(task) ==
    LET errors == dict_get(task.details[TYPE_ID_RPM].details, "errors")
    IN IF DictTruthy(errors) THEN ItemOrders(errors) ELSE {<<>>}

\* lines 184-188
install_failed(task) ==
    LET details == task.details[TYPE_ID_RPM].details
    IN <<render_failure_message("Install Failed"),
         render_failure_message(details.message)>>

\* lines 147-182; order is the order of errors.items()
install_succeeded_ignores_result(task, order) ==
    <<render_success_message("Install Succeeded"),
      render_success_message("Packages already installed")>>
install_succeeded(task, order) ==
    IF ~task.succeeded THEN install_failed(task)
    ELSE
      LET details == task.details[TYPE_ID_RPM].details
          resolved == details.resolved
          deps == details.deps
          errors == dict_get(details, "errors")
      IN <<render_success_message("Install Succeeded")>>
         \o (IF ListTruthy(resolved)
             THEN <<render_title("Installed"),
                    render_document_list(resolved, fields, fields)>>
             ELSE <<render_success_message("Packages already installed")>>)
         \o (IF ListTruthy(deps)
             THEN <<render_title("Installed for Dependencies"),
                    render_document_list(deps, fields, fields)>>
             ELSE <<>>)
         \o (IF DictTruthy(errors)
             THEN <<render_failure_message("Failed to install following packages:")>>
                  \o [i \in 1..Len(order) |-> write_error(order[i], errors[order[i]])]
             ELSE <<>>)

\* lines 263-267
update_failed(task) ==
    LET details == task.details[TYPE_ID_RPM].details
    IN <<render_failure_message("Update Failed"),
         render_failure_message(details.message)>>

\* lines 234-261
update_succeeded_empty_table(task, order) ==
    IF ~task.succeeded THEN update_failed(task)
    ELSE
      LET details == task.details[TYPE_ID_RPM].details
      IN <<render_success_message("Update Succeeded"),
           render_title("Updated"),
           render_document_list(details.resolved, fields, fields)>>
update_succeeded(task, order) ==
    IF ~task.succeeded THEN update_failed(task)
    ELSE
      LET details == task.details[TYPE_ID_RPM].details
          resolved == details.resolved
          deps == details.deps
      IN <<render_success_message("Update Succeeded")>>
         \o (IF ListTruthy(resolved)
             THEN <<render_title("Updated"),
                    render_document_list(resolved, fields, fields)>>
             ELSE <<render_success_message("No updates needed")>>)
         \o (IF ListTruthy(deps)
             THEN <<render_title("Installed for Dependencies"),
                    render_document_list(deps, fields, fields)>>
             ELSE <<>>)

\* lines 333-337
uninstall_failed(task) ==
    LET details == task.details[TYPE_ID_RPM].details
    IN <<render_failure_message("Uninstall Failed"),
         render_failure_message(details.message)>>

\* lines 304-331
uninstall_succeeded(task, order) ==
    IF ~task.succeeded THEN uninstall_failed(task)
    ELSE
      LET details == task.details[TYPE_ID_RPM].details
          resolved == details.resolved
          deps == details.deps
      IN <<render_success_message("Uninstall Completed")>>
         \o (IF ListTruthy(resolved)
             THEN <<render_title("Uninstalled"),
                    render_document_list(resolved, fields, fields)>>
             ELSE <<render_success_message("No matching packages found to uninstall")>>)
         \o (IF ListTruthy(deps)
             THEN <<render_title("Uninstalled for Dependencies"),
                    render_document_list(deps, fields, fields)>>
             ELSE <<>>)

succeeded(cmd, task, order) ==
    CASE cmd = "install" -> install_succeeded(task, order)
      [] cmd = "update" -> update_succeeded(task, order)
      [] cmd = "uninstall" -> uninstall_succeeded(task, order)

\* the task of the request reaches its terminal state and the command's succeeded
\* callback is run with it
TaskSucceeded ==
    /\ cli_request # PyNone
    /\ cli_task = PyNone
    /\ \E task \in TaskResults : \E order \in OrdersOf(task) :
          /\ cli_task' = task
          /\ cli_output' = succeeded(cli_command, task, order)
    /\ UNCHANGED <<cli_command, cli_kwargs, cli_request>>
    /\ only_cli

CliInit ==
    /\ cli_command = "none"
    /\ cli_kwargs = PyNone
    /\ cli_request = PyNone
    /\ cli_task = PyNone
    /\ cli_output = <<>>

NextCli ==
    \/ BuildRequest
    \/ TaskSucceeded

\* =====================================================================
\* specifications
\* =====================================================================
Init == SyncInit /\ UploadInit /\ ImportInit /\ CliInit

\* the importer under sync_repo and a concurrent cancel_sync_repo
SpecSync == Init /\ [][NextSync]_vars
\* the importer under upload_unit
SpecUpload == Init /\ [][NextUpload]_vars
\* the importer under import_units
SpecImport == Init /\ [][NextImport]_vars
\* one run of a package command of the admin client
SpecCli == Init /\ [][NextCli]_vars

Next == NextSync \/ NextUpload \/ NextImport \/ NextCli
Spec == Init /\ [][Next]_vars

\* =====================================================================
\* properties
\* =====================================================================

\* ---- C1 ----
\* C1: cancel_sync_repo never raises, whatever the state of the importer: before
\* any sync, while one runs, after one has returned.
C1_CancelNeverRaises == cancel_result # "AttributeError"

\* ---- C2 ----
FeedMissing(config) == config_get(config, KEY_FEED) \in {PyNone, Str("")}
\* C2: a sync_repo call whose configuration has no feed address (absent or empty)
\* fails with the configuration error and builds no ISOSyncRun; with no engine
\* of its own the call persists nothing, persisting being the engine's work.
C2_NoFeedFailsWithoutEngine ==
    (sync_result # "none" /\ FeedMissing(sync_config)) =>
        /\ sync_result = "ValueError"
        /\ sync_engine = PyNone

\* ---- C10 ----
\* C10: once a sync_repo call has ended, by a report or by an exception out of the
\* ISOSyncRun, self.iso_sync refers to no engine; while the call is at work it
\* refers to the engine built for this call.
C10_NoEngineAfterSyncEnds ==
    /\ (sync_pc = "idle" /\ sync_result \in {"report", "raised"}) => ~IsEngine(iso_sync)
    /\ (sync_pc \in {"perform_sync", "clear"}) => iso_sync = sync_engine

\* ---- C3 ----
UploadIsDuplicate == upload_call.unit_key \in upload_pre.iso_objects
UploadIsInvalid ==
    validate_iso_raises(upload_call.file, full_validation(upload_call))
\* C3: an upload whose unit_key already exists, or whose file fails validation, is
\* answered with success_flag False and the matching summary, and no save,
\* import_content or associate is made: the stores are as they were before the
\* call. No report with success_flag False comes with any persistence either.
C3_RejectedUploadPersistsNothing ==
    /\ (upload_call # PyNone /\ (UploadIsDuplicate \/ UploadIsInvalid)) =>
          /\ upload_pc = "idle"
          /\ upload_result =
                [success_flag |-> FALSE,
                 summary |-> IF UploadIsDuplicate THEN Str("ISO already exists")
                             ELSE validate_iso_message(upload_call.file),
                 details |-> PyNone]
          /\ upload_log = <<>>
          /\ Stores = upload_pre
    /\ ("success_flag" \in DOMAIN upload_result /\ ~upload_result.success_flag) =>
          /\ upload_log = <<>>
          /\ Stores = upload_pre
          /\ UploadIsDuplicate \/ UploadIsInvalid

\* a duplicate is rejected while the stores hold units
C3_Witness ==
    /\ upload_call # PyNone
    /\ UploadIsDuplicate
    /\ "success_flag" \in DOMAIN upload_result
    /\ repo_units # {}

\* ---- C4 ----
SaveImportAssociate == <<"save", "import_content", "associate">>
\* C4: an accepted upload saves, then imports the content, then associates: at
\* every moment the calls made are a prefix of that order, no unit is associated
\* that is not saved, success is reported only after all three, and a call that
\* ended short of them ended by the exception, not by a report.
C4_SaveBeforeAssociate ==
    /\ \E n \in 0..3 : upload_log = SubSeq(SaveImportAssociate, 1, n)
    /\ repo_units \subseteq iso_objects
    /\ ("success_flag" \in DOMAIN upload_result /\ upload_result.success_flag) =>
          /\ upload_log = SaveImportAssociate
          /\ upload_call.unit_key \in iso_objects \cap content_store \cap repo_units
    /\ (/\ upload_call # PyNone
        /\ upload_pc = "idle"
        /\ ~UploadIsDuplicate /\ ~UploadIsInvalid
        /\ upload_log # SaveImportAssociate) => upload_result = Raised

\* a call that failed between save and associate, beside a unit uploaded in full
C4_Witness ==
    /\ upload_result = Raised
    /\ upload_log = <<"save", "import_content">>
    /\ repo_units # {}

\* ---- C5 ----
IsoUnitsOf(source) == SelectSeq(source, LAMBDA u : u.type_id = TYPE_ID_ISO)
\* C5: with no units given, import_units associates each ISO unit of the source
\* query once, in query order, and returns those units; with units given it
\* associates and returns exactly the given ones.
C5_ImportUnitsAssociatesAndReturns ==
    import_return # PyNone =>
        /\ associate_calls = import_return.list
        /\ import_return.list = IF import_arg = PyNone THEN IsoUnitsOf(import_source)
                                ELSE import_arg.list

\* no units given, and a source that holds a non-ISO unit before an ISO unit
C5_Witness ==
    /\ import_return # PyNone
    /\ import_arg = PyNone
    /\ Len(import_source) = 2
    /\ import_source[1].type_id = TYPE_ID_RPM
    /\ import_source[2].type_id = TYPE_ID_ISO
    /\ associate_calls = <<import_source[2]>>

\* ---- C6 ----
NameSelectors(names) ==
    [i \in 1..Len(names) |-> [type_id |-> "rpm", unit_key |-> [name |-> names[i]]]]
\* C6: an update request built with no --name has the one selector of type RPM
\* with a null unit_key and options with all = True; built with names it has one
\* selector per name and no 'all' option.
C6_UpdateAllSelector ==
    (cli_request # PyNone /\ cli_command = "update") =>
        IF cli_kwargs.name = PyNone
        THEN /\ cli_request.units = <<[type_id |-> "rpm", unit_key |-> PyNone]>>
             /\ "all" \in DOMAIN cli_request.options
             /\ cli_request.options.all = TRUE
        ELSE /\ cli_request.units = NameSelectors(cli_kwargs.name.list)
             /\ "all" \notin DOMAIN cli_request.options

C6_Witness ==
    /\ cli_request # PyNone
    /\ cli_command = "update"
    /\ cli_kwargs.name = PyNone
    /\ cli_kwargs.no_commit

\* ---- C7 ----
\* C7: an install or uninstall request has one RPM selector per name in the order
\* given, apply = not no_commit and reboot = the flag; install (and update)
\* options carry importkeys = the flag, uninstall options carry no importkeys.
C7_SelectorsAndOptions ==
    cli_request # PyNone =>
        /\ cli_command \in {"install", "uninstall"} =>
              cli_request.units = NameSelectors(cli_kwargs.name.list)
        /\ cli_request.options.apply = ~cli_kwargs.no_commit
        /\ cli_request.options.reboot = cli_kwargs.reboot
        /\ cli_command = "install" =>
              cli_request.options =
                 [apply |-> ~cli_kwargs.no_commit, reboot |-> cli_kwargs.reboot,
                  importkeys |-> cli_kwargs.import_keys]
        /\ cli_command = "update" =>
              cli_request.options.importkeys = cli_kwargs.import_keys
        /\ cli_command = "uninstall" =>
              DOMAIN cli_request.options = {"apply", "reboot"}

\* install --name foo --name bar --no-commit
C7_Witness ==
    /\ cli_command = "install"
    /\ cli_request # PyNone
    /\ cli_kwargs = [name |-> List(<<"foo", "bar">>), no_commit |-> TRUE,
                     reboot |-> FALSE, import_keys |-> FALSE]
    /\ cli_request.options = [apply |-> FALSE, reboot |-> FALSE, importkeys |-> FALSE]

\* ---- C8 ----
FailedBanner(cmd) ==
    CASE cmd = "install" -> "Install Failed"
      [] cmd = "update" -> "Update Failed"
      [] cmd = "uninstall" -> "Uninstall Failed"
OutputCalls(name) == {i \in DOMAIN cli_output : cli_output[i].call = name}
\* C8: when the succeeded callback gets a result with succeeded = False, the
\* output is the failure banner and then details.message, with no success
\* message, title or table; success messages are rendered only for a result with
\* succeeded = True.
C8_ResultFieldDecides ==
    cli_task # PyNone =>
        /\ ~cli_task.succeeded =>
              cli_output =
                 <<[call |-> "render_failure_message", msg |-> FailedBanner(cli_command)],
                   [call |-> "render_failure_message",
                    msg |-> cli_task.details.rpm.details.message]>>
        /\ OutputCalls("render_success_message") # {} => cli_task.succeeded

C8_Witness ==
    /\ cli_task # PyNone
    /\ ~cli_task.succeeded
    /\ cli_command = "update"
    /\ Len(cli_output) = 2

\* ---- C9 ----
ResolvedTitle(cmd) ==
    CASE cmd = "install" -> "Installed"
      [] cmd = "update" -> "Updated"
      [] cmd = "uninstall" -> "Uninstalled"
NothingToDo(cmd) ==
    CASE cmd = "install" -> "Packages already installed"
      [] cmd = "update" -> "No updates needed"
      [] cmd = "uninstall" -> "No matching packages found to uninstall"
TitleShown(title) ==
    \E i \in OutputCalls("render_title") : cli_output[i].msg = title
MessageShown(msg) ==
    \E i \in OutputCalls("render_success_message") : cli_output[i].msg = msg
TablesShown == [i \in OutputCalls("render_document_list") |-> cli_output[i].docs]
\* C9: for a result with succeeded = True, an empty resolved list gives the
\* 'nothing to do' message and no resolved title or table; a non-empty one gives
\* the title and the table of the resolved packages and no such message; with
\* deps empty too, no table is rendered at all.
C9_NothingToDoInsteadOfEmptyTable ==
    (cli_task # PyNone /\ cli_task.succeeded) =>
        LET details == cli_task.details.rpm.details
            tables == TablesShown
        IN /\ \A i \in DOMAIN tables : tables[i] # <<>>
           /\ IF details.resolved = <<>>
              THEN /\ MessageShown(NothingToDo(cli_command))
                   /\ ~TitleShown(ResolvedTitle(cli_command))
                   /\ Cardinality(DOMAIN tables) = IF details.deps = <<>> THEN 0 ELSE 1
                   /\ \A i \in DOMAIN tables : tables[i] = details.deps
              ELSE /\ ~MessageShown(NothingToDo(cli_command))
                   /\ TitleShown(ResolvedTitle(cli_command))
                   /\ \E i \in DOMAIN tables :
                         /\ tables[i] = details.resolved
                         /\ i > 1
                         /\ cli_output[i - 1] =
                               [call |-> "render_title",
                                msg |-> ResolvedTitle(cli_command)]

C9_Witness ==
    /\ cli_task # PyNone
    /\ cli_task.succeeded
    /\ cli_command = "uninstall"
    /\ cli_task.details.rpm.details.resolved = <<>>
    /\ cli_task.details.rpm.details.deps = <<>>
    /\ MessageShown("No matching packages found to uninstall")

\* ---- C11 ----
TaskErrors == dict_get(cli_task.details.rpm.details, "errors")
\* the failure banner at position b is followed by one write per pair of errors,
\* and the output has no other banner and no other write
ErrorsRenderedAt(b, errors) ==
    LET n == Cardinality(DOMAIN errors)
    IN /\ OutputCalls("render_failure_message") = {b}
       /\ OutputCalls("write") = (b + 1)..(b + n)
       /\ \A name \in DOMAIN errors :
             Cardinality({i \in OutputCalls("write") :
                 cli_output[i].line = <<name, " : ", errors[name], "\n">>}) = 1
\* C11: for install, update and uninstall alike, a succeeded result with a
\* non-empty errors mapping is rendered with a failure banner followed by exactly
\* one line per (name, message) pair; with the mapping empty or absent there is
\* neither a banner nor such a line.
C11_ErrorsRendered ==
    (cli_task # PyNone /\ cli_task.succeeded) =>
        IF DictTruthy(TaskErrors)
        THEN \E b \in DOMAIN cli_output : ErrorsRenderedAt(b, TaskErrors)
        ELSE /\ OutputCalls("render_failure_message") = {}
             /\ OutputCalls("write") = {}

====
